---- MODULE Spec2Model ----
(***************************************************************************)
(* A model of the by-key library (include/by-key/by_key.hpp): the          *)
(* accumulation engine (count_by, index_by, group_by, group_reduce_by,     *)
(* transform_reduce_by, accumulate_by, extrema_by, partition_by), each     *)
(* call stepped one loop iteration at a time, and the ordering helpers     *)
(* (to_sorted_pairs, top_k and the pre-built comparators).                 *)
(***************************************************************************)
EXTENDS Integers, Sequences, FiniteSets, TLC

\* ---- bounds of the model ------------------------------------------------
MaxLen == 3
NumKeys == 2
MaxVal == 1
MaxOrd == 2
\* the ordering helpers: keys and values of the map handed in, and k
MaxEntries == 3
MaxCount == 2
MaxK == 4

Keys == 1..NumKeys
\* projected values: a negative one and the positive ones up to MaxVal
Vals == {-1} \cup (1..MaxVal)
Ords == 1..MaxOrd

VARIABLES
    op,         \* the library function that was called
    via,        \* how it was called: "direct", or through its adaptor as "pipe" (r | a) or "call" (a(r))
    r,          \* the input range: a sequence of elements
    pos,        \* how many elements the range-for loop has consumed
    pc,         \* "loop" while the call runs, "done" once it returned, "threw" once a projection threw
    overwrite,  \* index_by's overwrite argument: "true", "false", or "default" when none is passed
    vkind,      \* the value projection passed: "field", "identity" or "counter" (a running counter)
    fourth_arg, \* the fourth argument of an accumulate_by call, with its type, if one is passed
    expected_unique, \* the capacity hint
    traits,     \* the traits object handed to transform_reduce_by_impl
    next,       \* the counter captured by the "counter" value projection
    moved,      \* the indices of the elements a moving value projection has moved the content out of
    fault,      \* the projection and element on which a projection throws, if any
    calls,      \* the projections invoked so far, in order, with the element each was invoked on
    freq,       \* count_by's map
    reuse,      \* the map the caller hands to group_by_into
    m,          \* the map m of index_by_into / group_by_into / group_reduce_by
    accs,       \* transform_reduce_by_impl's map of accumulators
    finalized,  \* the keys traits.finalize was applied to, in the order of the finalize loop
    states,     \* extrema_by's map of extrema_state
    out,        \* partition_by's partition_result; to_sorted_pairs' vector out
    k,          \* top_k's k
    cmp,        \* the comparator handed to to_sorted_pairs / top_k
    iter,       \* the order in which the unordered_map handed out its entries
    v,          \* top_k's vector v
    prev,       \* what an earlier call of the helper returned, when it is applied to its own result
    ret         \* what the call returned

Inputs == <<op, via, r, overwrite, vkind, fourth_arg, expected_unique, traits, reuse, fault>>
Locals == <<freq, m, accs, states, out>>
Helper == <<k, cmp, iter, v, prev>>
\* what the projections change when they run
Effects == <<next, moved>>
vars == <<Inputs, Locals, Helper, Effects, finalized, pos, pc, calls, ret>>

\* ---- elements and projections -------------------------------------------
\* An element is what the projections read from it: k its key, v its value,
\* o its order key, p the outcome of the predicate.
Elem(ek, ev, eo, ep) == [k |-> ek, v |-> ev, o |-> eo, p |-> ep]
ElemsK == {Elem(key, 1, 1, FALSE) : key \in Keys}
ElemsKV == {Elem(key, val, 1, FALSE) : key \in Keys, val \in Vals}
ElemsPV == {Elem(1, val, 1, p) : val \in Vals, p \in BOOLEAN}

SeqsUpTo(S, n) == UNION {[1..len -> S] : len \in 0..n}
\* Sequences for extrema_by: every element carries its own payload (its place in
\* the sequence), so the element a stored value came from can be told.
SeqsKO(n) ==
    UNION {{[i \in 1..len |-> Elem(f[i][1], i, f[i][2], FALSE)] : f \in [1..len -> Keys \X Ords]}
           : len \in 0..n}
SeqsK(n) ==
    UNION {{[i \in 1..len |-> Elem(f[i], i, 1, FALSE)] : f \in [1..len -> Keys]} : len \in 0..n}

key_proj(x) == x.k
order_proj(x) == x.o
pred_proj(x) == x.p
\* The value projection: a field of the element, the element itself
\* (std::identity), the running counter [next = 1](int) mutable { return next++; },
\* or the content moved out of the element ("move").
value_proj(x) ==
    CASE vkind = "counter" -> next
      [] vkind = "identity" -> x
      [] OTHER -> x.v
\* The counter after the value projection ran once.
AfterValue == IF vkind = "counter" THEN next + 1 ELSE next
\* The moved-from elements after the value projection ran on element i:
\* [](T& e){ return std::move(e); } leaves the element moved-from.
AfterMove(i) == IF vkind = "move" THEN moved \cup {i} ELSE moved
\* compare as less-or-equal: a tie counts as an improvement.
less_equal(a, b) == a <= b
\* std::ranges::less
compare(a, b) == a < b

NoFault == [proj |-> "none", at |-> 0]
NoRet == [has |-> FALSE]
Returned(val) == [has |-> TRUE, val |-> val]

\* ---- std::unordered_map -------------------------------------------------
EmptyMap == <<>>
Has(map, key) == key \in DOMAIN map
\* Put dropping the entries of the other keys.
PutAlone(map, key, val) == [x \in {key} |-> val]
\* map[k] = val
Put(map, key, val) == [x \in (DOMAIN map) \cup {key} |-> IF x = key THEN val ELSE map[x]]
\* map.try_emplace(k, val) and map.emplace(k, val): insert only when k is absent
TryEmplace(map, key, val) == IF Has(map, key) THEN map ELSE Put(map, key, val)
\* The orders in which a container may hand out the elements of S.
Perms(S) == {f \in [1..Cardinality(S) -> S] : \A i, j \in 1..Cardinality(S) : f[i] = f[j] => i = j}

\* ---- traits ---------------------------------------------------------------
\* A traits object: its kind, what identity() returns, and the binary operator
\* its combine applies.
\* detail::sum_traits<T>
sum_traits == [kind |-> "sum_traits", init |-> 0, combine_op |-> "+="]
\* detail::basic_transform_traits<Acc, BinaryOp>{init, combine}, which
\* transform_reduce_by builds of a plain (init, combine) pair
basic_transform_traits(acc0, bop) ==
    [kind |-> "basic_transform_traits", init |-> acc0, combine_op |-> bop]
\* A traits object of the caller, without finalize: identity() returns acc0 and
\* combine(acc, v) stores bop(acc, v) into acc.
caller_traits(acc0, bop) == [kind |-> "caller_traits", init |-> acc0, combine_op |-> bop]
\* The AvgTraits of the tests: state { sum = 0; count = 0 }, with finalize.
AvgTraits == [kind |-> "AvgTraits", init |-> [sum |-> 0, count |-> 0], combine_op |-> "none"]

\* The binary operators handed in: std::plus<> and std::minus<>.
BinaryOps == {"std::plus", "std::minus"}
Apply(bop, a, b) == IF bop = "std::minus" THEN a - b ELSE a + b
\* std::plus<>
plus(a, b) == Apply("std::plus", a, b)
\* identity that forgets the init of the caller's (init, operator) pair.
identity_zero(t) == IF t.kind = "basic_transform_traits" THEN 0 ELSE t.init
identity(t) == IF t.kind = "sum_traits" THEN 0 ELSE t.init
\* basic_combine with the operator's arguments swapped.
basic_combine_swapped(t, acc, val) == Apply(t.combine_op, val, acc)
\* basic_transform_traits::combine: acc = combine_op(acc, std::forward<Value>(v))
basic_combine(t, acc, val) == Apply(t.combine_op, acc, val)
\* combine(acc, v): the accumulator afterwards
combine(t, acc, val) ==
    CASE t.kind = "sum_traits" -> acc + val
      [] t.kind = "basic_transform_traits" -> basic_combine(t, acc, val)
      [] t.kind = "caller_traits" -> Apply(t.combine_op, acc, val)
      [] t.kind = "AvgTraits" -> [sum |-> acc.sum + val, count |-> acc.count + 1]

\* detail::has_finalize<Traits, Acc>
has_finalize(t) == t.kind = "AvgTraits"
\* A double that is the quotient of two ints, kept exactly: the fraction num/den
\* in lowest terms with den > 0.
RECURSIVE Gcd(_, _)
Gcd(a, b) == IF b = 0 THEN a ELSE Gcd(b, a % b)
Abs(a) == IF a < 0 THEN -a ELSE a
Quotient(num, den) ==
    LET g == Gcd(Abs(num), den) IN [num |-> num \div g, den |-> den \div g]
\* finalize handing the accumulator back as it is.
finalize_skipped(t, acc) == acc
\* AvgTraits::finalize: s.count ? s.sum / s.count : 0.0
finalize(t, acc) == IF acc.count # 0 THEN Quotient(acc.sum, acc.count) ELSE Quotient(0, 1)

\* ---- the range-for loop ---------------------------------------------------
\* CurIndex walking the range from its end.
CurIndexBackwards(p) == Len(r) - p
\* The index in r of the element the loop hands out after consuming p elements.
CurIndex(p) == p + 1
\* ProjOrder with extrema_by's value projection invoked before its order projection.
ProjOrderValueBeforeOrder(o) ==
    CASE o = "count_by" -> <<"key">>
      [] o = "extrema_by" -> <<"key", "value", "order">>
      [] o = "partition_by" -> <<"pred", "value">>
      [] OTHER -> <<"key", "value">>
\* ProjOrder with partition_by's value projection invoked before its predicate.
ProjOrderValueBeforePred(o) ==
    CASE o = "count_by" -> <<"key">>
      [] o = "extrema_by" -> <<"key", "order", "value">>
      [] o = "partition_by" -> <<"value", "pred">>
      [] OTHER -> <<"key", "value">>
\* The projections an operation invokes on each element, in the order of its loop body.
ProjOrder(o) ==
    CASE o = "count_by" -> <<"key">>
      [] o = "extrema_by" -> <<"key", "order", "value">>
      [] o = "partition_by" -> <<"pred", "value">>
      [] OTHER -> <<"key", "value">>

\* A value projection that moves from the element, [](Entry& e){ return
\* std::move(e.payload); }, leaves it valid but unspecified: whatever is read
\* from the element afterwards (its payload, an order key or a predicate
\* computed from the payload) may be anything. Its key is not moved from.
MovedFrom(x) ==
    {[x EXCEPT !.v = val, !.o = ord, !.p = pd] :
        val \in {0} \cup Vals, ord \in 0..MaxOrd, pd \in BOOLEAN}
LeftBy(x) == IF vkind = "move" THEN MovedFrom(x) ELSE {x}
PosIn(o, pj) == CHOOSE j \in DOMAIN ProjOrder(o) : ProjOrder(o)[j] = pj
\* Element i as the projection pj of the loop body finds it, xm being what a
\* move leaves of it: moved-from once the value projection has run on it.
ElemAt(i, pj, xm) ==
    IF vkind = "move" /\ (i \in moved \/ PosIn(op, "value") < PosIn(op, pj)) THEN xm ELSE r[i]

\* The position in ProjOrder(op) of the projection that throws on element i (0: none does).
ThrowsAt(i) ==
    IF fault.at = i /\ \E j \in DOMAIN ProjOrder(op) : ProjOrder(op)[j] = fault.proj
    THEN CHOOSE j \in DOMAIN ProjOrder(op) : ProjOrder(op)[j] = fault.proj
    ELSE 0

\* The log entries of the projections invoked on element i, the first n of the loop body.
Invoked(i, n) == [j \in 1..n |-> [proj |-> ProjOrder(op)[j], at |-> i]]

\* Raise with the exception caught and the map built so far returned.
RaiseBestEffort(i, t) ==
    /\ pc' = "done"
    /\ calls' = calls \o Invoked(i, t)
    /\ ret' = Returned(IF op = "count_by" THEN freq ELSE IF op \in {"transform_reduce_by", "accumulate_by"} THEN accs ELSE m)
    /\ UNCHANGED <<Locals, Helper, Effects, finalized, pos>>

\* A projection throws on element i, as the t-th call of the loop body: the
\* exception leaves the loop and the function, whose local maps are destroyed,
\* and nothing is returned.
Raise(i, t) ==
    /\ pc' = "threw"
    /\ calls' = calls \o Invoked(i, t)
    /\ freq' = EmptyMap /\ m' = EmptyMap /\ accs' = EmptyMap /\ states' = EmptyMap
    /\ out' = [falses |-> <<>>, trues |-> <<>>]
    /\ ret' = NoRet
    /\ UNCHANGED <<pos, Effects, Helper, finalized>>

\* The loop body ran to its end on element i.
Advance(i) ==
    /\ calls' = calls \o Invoked(i, Len(ProjOrder(op)))
    /\ pos' = pos + 1
    /\ UNCHANGED <<pc, ret, Helper, finalized>>

\* The loop is over: the function returns val.
Return(val) ==
    /\ pc = "loop" /\ pos = Len(r)
    /\ pc' = "done"
    /\ ret' = Returned(val)
    /\ UNCHANGED <<Inputs, Locals, Helper, Effects, finalized, pos, calls>>

\* ---- count_by -------------------------------------------------------------
\* Increment with a new counter starting at 1 before the increment.
IncrementFromOne(map, key) == Put(map, key, (IF Has(map, key) THEN map[key] ELSE 1) + 1)
\* ++freq[key]: operator[] value-initialises a missing counter to 0.
Increment(map, key) == Put(map, key, (IF Has(map, key) THEN map[key] ELSE 0) + 1)

count_by_step ==
    /\ op = "count_by" /\ pc = "loop" /\ pos < Len(r)
    /\ LET i == CurIndex(pos)
           x == r[i]
           t == ThrowsAt(i)
       IN  IF t # 0 THEN Raise(i, t)
           ELSE /\ freq' = Increment(freq, key_proj(x))
                /\ Advance(i)
                /\ UNCHANGED <<m, accs, states, out, Effects>>
    /\ UNCHANGED Inputs

count_by_return == op = "count_by" /\ Return(freq)

\* ---- index_by_into / index_by ---------------------------------------------
\* The flag index_by hands to index_by_into: bool overwrite = true.
index_by_overwrite(arg) == IF arg = "default" THEN TRUE ELSE arg = "true"
\* IndexWrite with the flag ignored: always assigns.
IndexWriteAlways(map, ow, key, val) == Put(map, key, val)
\* if (overwrite) m[key_value] = val_value; else m.emplace(key_value, val_value);
IndexWrite(map, ow, key, val) == IF ow THEN Put(map, key, val) ELSE TryEmplace(map, key, val)

index_by_into_step ==
    /\ op = "index_by" /\ pc = "loop" /\ pos < Len(r)
    /\ LET i == CurIndex(pos)
           x == r[i]
           t == ThrowsAt(i)
           key_value == key_proj(x)
           val_value == value_proj(x)
       IN  IF t # 0 THEN Raise(i, t)
           ELSE /\ m' = IndexWrite(m, index_by_overwrite(overwrite), key_value, val_value)
                /\ next' = AfterValue /\ moved' = AfterMove(i)
                /\ Advance(i)
                /\ UNCHANGED <<freq, accs, states, out>>
    /\ UNCHANGED Inputs

index_by_into_return == op = "index_by" /\ Return(m)

\* ---- group_reduce_by --------------------------------------------------------
\* The accumulator and reducer of the group_reduce_by call in the tests:
\* std::vector<std::string>{} and acc.push_back(std::move(s)).
group_reduce_init == <<>>
op_fn(acc, val) == Append(acc, val)

group_reduce_by_step ==
    /\ op = "group_reduce_by" /\ pc = "loop" /\ pos < Len(r)
    /\ LET i == CurIndex(pos)
           x == r[i]
           t == ThrowsAt(i)
           key_value == key_proj(x)
           value_copy == value_proj(x)
           emplaced == TryEmplace(m, key_value, group_reduce_init)
       IN  IF t # 0 THEN Raise(i, t)
           ELSE /\ m' = Put(emplaced, key_value, op_fn(emplaced[key_value], value_copy))
                /\ next' = AfterValue /\ moved' = AfterMove(i)
                /\ Advance(i)
                /\ UNCHANGED <<freq, accs, states, out>>
    /\ UNCHANGED Inputs

group_reduce_by_return == op = "group_reduce_by" /\ Return(m)

\* ---- group_by_into / group_by -----------------------------------------------
\* PushBack inserting at the front of the bucket.
PushFront(map, key, val) == Put(map, key, <<val>> \o (IF Has(map, key) THEN map[key] ELSE <<>>))
\* m[key].push_back(val): operator[] makes a missing bucket empty first.
PushBack(map, key, val) == Put(map, key, Append(IF Has(map, key) THEN map[key] ELSE <<>>, val))

\* group_by hands group_by_into an empty map; a caller of group_by_into its own.
GroupOps == {"group_by", "group_by_into"}
\* The parameter m starting empty, whatever the caller handed in.
FreshMap(mm) == EmptyMap
\* group_by_into(r, key, value, Map m, ...): the parameter m is the caller's
\* map, copied or moved in.
MapParam(mm) == mm

group_by_into_step ==
    /\ op \in GroupOps /\ pc = "loop" /\ pos < Len(r)
    /\ LET i == CurIndex(pos)
           x == r[i]
           t == ThrowsAt(i)
           key_value == key_proj(x)
           val_value == value_proj(x)
       IN  IF t # 0 THEN Raise(i, t)
           ELSE /\ m' = PushBack(m, key_value, val_value)
                /\ next' = AfterValue /\ moved' = AfterMove(i)
                /\ Advance(i)
                /\ UNCHANGED <<freq, accs, states, out>>
    /\ UNCHANGED Inputs

group_by_into_return == op \in GroupOps /\ Return(m)

\* ---- transform_reduce_by / accumulate_by -------------------------------------
\* The fourth argument of accumulate_by(r, key, value, ...): none, or a value of a type.
NoArg == [passed |-> FALSE, type |-> "none", val |-> 0]
Arg(type, val) == [passed |-> TRUE, type |-> type, val |-> val]
\* accumulate_by has two overloads, (r, key, value, std::size_t expected_unique = 0)
\* and (r, key, value, T init, std::size_t expected_unique = 0). Overload
\* resolution takes the first for three arguments and, as the more specialised
\* template, for a fourth argument of type std::size_t; the second otherwise.
InitOverload(arg) == arg.passed /\ arg.type # "std::size_t"
\* The traits accumulate_by hands to transform_reduce_by.
accumulate_by_traits(arg) ==
    IF InitOverload(arg) THEN basic_transform_traits(arg.val, "std::plus") ELSE sum_traits
\* The capacity hint accumulate_by hands on.
accumulate_by_expected_unique(arg) ==
    IF arg.passed /\ ~InitOverload(arg) THEN arg.val ELSE 0
\* detail::try_reserve(accs, size_hint(r, expected_unique)) changes the map's
\* capacity only: the map it leaves is the map it was given.
try_reserve(map, n) == map

\* transform_reduce_by with a traits object, transform_reduce_by with an
\* (init, std::plus) pair and both accumulate_by overloads end in
\* detail::transform_reduce_by_impl with the traits object in `traits`.
ReduceOps == {"transform_reduce_by", "accumulate_by"}

transform_reduce_by_impl_step ==
    /\ op \in ReduceOps /\ pc = "loop" /\ pos < Len(r)
    /\ LET i == CurIndex(pos)
           x == r[i]
           t == ThrowsAt(i)
           key_value == key_proj(x)
           value_copy == value_proj(x)
           emplaced == TryEmplace(try_reserve(accs, expected_unique), key_value, identity(traits))
       IN  IF t # 0 THEN Raise(i, t)
           ELSE /\ accs' = Put(emplaced, key_value, combine(traits, emplaced[key_value], value_copy))
                /\ next' = AfterValue /\ moved' = AfterMove(i)
                /\ Advance(i)
                /\ UNCHANGED <<freq, m, states, out>>
    /\ UNCHANGED Inputs

\* The finalize loop, for (auto& [k, acc] : accs) out.emplace(k, traits_copy.finalize(acc)),
\* visiting the accumulators in the order `order`, and return out.
ReturnFinalized(order) ==
    /\ pc = "loop" /\ pos = Len(r)
    /\ pc' = "done"
    /\ finalized' = order
    /\ ret' = Returned([key \in {order[j] : j \in DOMAIN order} |-> finalize(traits, accs[key])])
    /\ UNCHANGED <<Inputs, Locals, Helper, Effects, pos, calls>>

transform_reduce_by_impl_return ==
    /\ op \in ReduceOps
    /\ IF has_finalize(traits)
       THEN \E order \in Perms(DOMAIN accs) : ReturnFinalized(order)
       ELSE Return(accs)

\* ---- extrema_by ----------------------------------------------------------------
extrema_state(min_value, min_order, max_value, max_order) ==
    [min_value |-> min_value, min_order |-> min_order,
     max_value |-> max_value, max_order |-> max_order]

\* UpdateMin taking every element as the new minimum.
UpdateMinAlways(st, order_value, val_value) ==
    [st EXCEPT !.min_order = order_value, !.min_value = val_value]
\* The state of an already known key after one more element.
UpdateMin(st, order_value, val_value) ==
    IF compare(order_value, st.min_order)
    THEN [st EXCEPT !.min_order = order_value, !.min_value = val_value]
    ELSE st
UpdateMax(st, order_value, val_value) ==
    IF compare(st.max_order, order_value)
    THEN [st EXCEPT !.max_order = order_value, !.max_value = val_value]
    ELSE st

extrema_by_step ==
    /\ op = "extrema_by" /\ pc = "loop" /\ pos < Len(r)
    /\ \E xm \in LeftBy(r[CurIndex(pos)]) :
       LET i == CurIndex(pos)
           t == ThrowsAt(i)
           key_value == key_proj(ElemAt(i, "key", xm))
           order_value == order_proj(ElemAt(i, "order", xm))
           val_value == value_proj(ElemAt(i, "value", xm))
           inserted == ~Has(states, key_value)
       IN  IF t # 0 THEN Raise(i, t)
           ELSE /\ states' =
                     IF inserted
                     THEN Put(states, key_value,
                              extrema_state(val_value, order_value, val_value, order_value))
                     ELSE Put(states, key_value,
                              UpdateMax(UpdateMin(states[key_value], order_value, val_value),
                                        order_value, val_value))
                /\ next' = AfterValue /\ moved' = AfterMove(i)
                /\ Advance(i)
                /\ UNCHANGED <<freq, m, accs, out>>
    /\ UNCHANGED Inputs

extrema_result(st) == [min |-> st.min_value, max |-> st.max_value]

extrema_by_return ==
    op = "extrema_by" /\ Return([key \in DOMAIN states |-> extrema_result(states[key])])

\* ---- partition_by ---------------------------------------------------------------
\* Route with the branches swapped.
RouteSwapped(res, is_true, val) ==
    IF is_true THEN [res EXCEPT !.falses = Append(@, val)]
               ELSE [res EXCEPT !.trues = Append(@, val)]
\* if (is_true) out.trues.push_back(val_value); else out.falses.push_back(val_value);
Route(res, is_true, val) ==
    IF is_true THEN [res EXCEPT !.trues = Append(@, val)]
               ELSE [res EXCEPT !.falses = Append(@, val)]

partition_by_step ==
    /\ op = "partition_by" /\ pc = "loop" /\ pos < Len(r)
    /\ \E xm \in LeftBy(r[CurIndex(pos)]) :
       LET i == CurIndex(pos)
           t == ThrowsAt(i)
           is_true == pred_proj(ElemAt(i, "pred", xm))
           val_value == value_proj(ElemAt(i, "value", xm))
       IN  IF t # 0 THEN Raise(i, t)
           ELSE /\ out' = Route(out, is_true, val_value)
                /\ next' = AfterValue /\ moved' = AfterMove(i)
                /\ Advance(i)
                /\ UNCHANGED <<freq, m, accs, states>>
    /\ UNCHANGED Inputs

partition_by_return == op = "partition_by" /\ Return(out)

\* ---- specification --------------------------------------------------------
\* The caller's init of accumulate_by(r, key, value, init), and the fourth
\* arguments of the accumulate_by calls: none, an int, a std::size_t.
Inits == {0, 10}
Args == {NoArg} \cup {Arg(type, val) : type \in {"int", "std::size_t"}, val \in Inits}

\* The locals of a called operation when its loop is about to start.
StartLoop ==
    /\ pos = 0 /\ pc = "loop" /\ next = 1 /\ moved = {} /\ calls = <<>>
    /\ freq = EmptyMap /\ accs = EmptyMap /\ states = EmptyMap
    /\ out = [falses |-> <<>>, trues |-> <<>>] /\ finalized = <<>>
    /\ k = 0 /\ cmp = "none" /\ iter = <<>> /\ v = <<>> /\ prev = NoRet
    /\ ret = NoRet

\* The state when the loop of `o`, called directly, is about to start.
Start(o, rr, ow, vk, tr, arg) ==
    /\ op = o /\ r = rr /\ overwrite = ow /\ vkind = vk /\ traits = tr
    /\ fourth_arg = arg /\ expected_unique = accumulate_by_expected_unique(arg)
    /\ via = "direct" /\ reuse = EmptyMap /\ m = EmptyMap
    /\ StartLoop

\* The state when the loop of group_by_into, called with the map mm, is about to start.
StartInto(rr, mm) ==
    /\ op = "group_by_into" /\ r = rr /\ overwrite = "default" /\ vkind = "field"
    /\ traits = sum_traits /\ fourth_arg = NoArg /\ expected_unique = 0
    /\ via = "direct" /\ reuse = mm /\ m = MapParam(mm)
    /\ StartLoop

\* ---- adaptors ------------------------------------------------------------------
\* detail::pipeable<F>{func}: p(r) ("call") and r | p ("pipe") both return func(r).
pipeable == {"call", "pipe"}
\* A std::size_t expected_unique = 0 parameter, bound to the argument passed for
\* it, if any: an argument of another integer type is converted.
SizeT(arg) == IF arg.passed THEN arg.val ELSE 0
\* func(range) of an adaptor: the engine operation `o`, called on the range with
\* the projections and traits the adaptor captured and with its expected_unique
\* as last argument (the fourth argument, of type std::size_t, of accumulate_by).
Forwarded(how, o, rr, vk, tr, hint) ==
    /\ op = o /\ r = rr /\ overwrite = "default" /\ vkind = vk /\ traits = tr
    /\ fourth_arg = (IF o = "accumulate_by" THEN Arg("std::size_t", hint) ELSE NoArg)
    /\ expected_unique = hint
    /\ via = how /\ reuse = EmptyMap /\ m = EmptyMap
    /\ StartLoop
\* adaptors_accumulate handing its third argument on as an int.
adaptors_accumulate_int(how, rr, hint) ==
    /\ Forwarded(how, "accumulate_by", rr, "field", accumulate_by_traits(Arg("int", hint)), 0)
adaptors_count(how, rr, hint) == Forwarded(how, "count_by", rr, "field", sum_traits, hint)
adaptors_group(how, rr, hint) == Forwarded(how, "group_by", rr, "field", sum_traits, hint)
adaptors_accumulate(how, rr, hint) ==
    Forwarded(how, "accumulate_by", rr, "field", accumulate_by_traits(Arg("std::size_t", hint)), hint)
adaptors_transform_reduce(how, rr, tr, hint) ==
    Forwarded(how, "transform_reduce_by", rr, "field", tr, hint)
adaptors_extrema(how, rr, hint) == Forwarded(how, "extrema_by", rr, "field", sum_traits, hint)
adaptors_partition(how, rr) == Forwarded(how, "partition_by", rr, "identity", sum_traits, 0)

\* Inputs of the tests, beside the bounded ones: the scores of AccumulateBySum
\* (red is key 1, blue key 2) and the sorted distinct values of LC1331_RankTransform.
Scores == <<Elem(1, 3, 1, FALSE), Elem(2, 2, 1, FALSE), Elem(1, 5, 1, FALSE),
            Elem(2, 4, 1, FALSE), Elem(1, -1, 1, FALSE)>>
Uniq == <<Elem(10, 1, 1, FALSE), Elem(20, 1, 1, FALSE), Elem(30, 1, 1, FALSE),
          Elem(40, 1, 1, FALSE)>>
\* the samples of TransformReduceWithTraits (a is key 1, b key 2)
Samples == <<Elem(1, 2, 1, FALSE), Elem(2, 10, 1, FALSE), Elem(1, 6, 1, FALSE),
             Elem(2, 2, 1, FALSE), Elem(1, 4, 1, FALSE)>>
\* the entries of ExtremaByHandlesMoveBeforeOrder (alpha is key 1, beta key 2):
\* the payload is told by its place, the order key is its size
entries == <<Elem(1, 1, 3, FALSE), Elem(1, 2, 2, FALSE), Elem(1, 3, 6, FALSE),
             Elem(2, 4, 4, FALSE)>>
\* the words of PartitionByEvaluatesPredicateBeforeMove, told by their place:
\* on, stop, cab, a, longword, with the outcome of s.size() > 2
words == <<Elem(1, 1, 1, FALSE), Elem(1, 2, 1, TRUE), Elem(1, 3, 1, TRUE),
           Elem(1, 4, 1, FALSE), Elem(1, 5, 1, TRUE)>>
Flags == {"default", "true", "false"}
\* The maps handed to group_by_into: empty, or with a bucket for key 0, which
\* no element has (the 'z' of GroupByConvenience), and one for key 1.
ReuseMaps ==
    {[key \in D |-> IF key = 0 THEN <<1>> ELSE <<-1, 1>>] : D \in SUBSET {0, 1}}

\* The calls of the engine, on ranges whose elements differ in what the called
\* operation reads from them.
Calls ==
    \/ \E rr \in SeqsUpTo(ElemsK, MaxLen) : Start("count_by", rr, "default", "field", sum_traits, NoArg)
    \/ \E rr \in SeqsUpTo(ElemsKV, MaxLen), ow \in Flags :
          Start("index_by", rr, ow, "field", sum_traits, NoArg)
    \/ \E rr \in SeqsUpTo(ElemsK, MaxLen) \cup {Uniq}, ow \in Flags :
          Start("index_by", rr, ow, "counter", sum_traits, NoArg)
    \/ \E rr \in SeqsUpTo(ElemsKV, MaxLen) :
          Start("group_reduce_by", rr, "default", "field", sum_traits, NoArg)
    \/ \E rr \in SeqsUpTo(ElemsKV, MaxLen) : Start("group_by", rr, "default", "field", sum_traits, NoArg)
    \/ \E rr \in SeqsUpTo(ElemsKV, MaxLen), mm \in ReuseMaps : StartInto(rr, mm)
    \/ \E rr \in SeqsUpTo(ElemsKV, MaxLen) \cup {Scores}, arg \in Args :
          Start("accumulate_by", rr, "default", "field", accumulate_by_traits(arg), arg)
    \/ \E rr \in SeqsUpTo(ElemsKV, MaxLen), val \in Inits, bop \in BinaryOps :
          \/ Start("transform_reduce_by", rr, "default", "field", basic_transform_traits(val, bop), NoArg)
          \/ Start("transform_reduce_by", rr, "default", "field", caller_traits(val, bop), NoArg)
    \/ \E rr \in SeqsUpTo(ElemsKV, MaxLen) \cup {Samples} :
          Start("transform_reduce_by", rr, "default", "field", AvgTraits, NoArg)
    \/ \E rr \in SeqsKO(MaxLen) : Start("extrema_by", rr, "default", "field", sum_traits, NoArg)
    \/ \E rr \in SeqsUpTo(ElemsPV, MaxLen) :
          Start("partition_by", rr, "default", "identity", sum_traits, NoArg)
    \/ \E rr \in SeqsKO(MaxLen) \cup {entries} :
          Start("extrema_by", rr, "default", "move", sum_traits, NoArg)
    \/ \E rr \in SeqsUpTo(ElemsPV, MaxLen) \cup {words} :
          Start("partition_by", rr, "default", "move", sum_traits, NoArg)

\* The calls through the adaptors, applied either way.
AdaptorCalls ==
    \E how \in pipeable :
       \/ \E rr \in SeqsUpTo(ElemsK, MaxLen) : adaptors_count(how, rr, 0)
       \/ \E rr \in SeqsUpTo(ElemsKV, MaxLen) : adaptors_group(how, rr, 0)
       \/ \E rr \in SeqsUpTo(ElemsKV, MaxLen) \cup {Scores}, arg \in Args :
             adaptors_accumulate(how, rr, SizeT(arg))
       \/ \E rr \in SeqsUpTo(ElemsKV, MaxLen), tr \in {AvgTraits, caller_traits(10, "std::minus")} :
             adaptors_transform_reduce(how, rr, tr, 0)
       \/ \E rr \in SeqsKO(MaxLen) : adaptors_extrema(how, rr, 0)
       \/ \E rr \in SeqsUpTo(ElemsPV, MaxLen) : adaptors_partition(how, rr)

Init == fault = NoFault /\ (Calls \/ AdaptorCalls)

\* The same calls with a projection that throws on one element; here the
\* elements differ in their keys (for partition_by, in the predicate's outcome).
ElemsP == {Elem(1, 1, 1, p) : p \in BOOLEAN}
Faults ==
    {NoFault} \cup {[proj |-> pj, at |-> i] : pj \in {"key", "value", "order", "pred"}, i \in 1..MaxLen}
ThrowingCalls ==
    \/ \E rr \in SeqsUpTo(ElemsK, MaxLen) : Start("count_by", rr, "default", "field", sum_traits, NoArg)
    \/ \E rr \in SeqsUpTo(ElemsK, MaxLen), ow \in Flags :
          Start("index_by", rr, ow, "counter", sum_traits, NoArg)
    \/ \E rr \in SeqsUpTo(ElemsK, MaxLen) :
          Start("group_reduce_by", rr, "default", "field", sum_traits, NoArg)
    \/ \E rr \in SeqsUpTo(ElemsK, MaxLen) : Start("group_by", rr, "default", "field", sum_traits, NoArg)
    \/ \E rr \in SeqsUpTo(ElemsK, MaxLen) :
          Start("accumulate_by", rr, "default", "field", accumulate_by_traits(NoArg), NoArg)
    \/ \E rr \in SeqsUpTo(ElemsK, MaxLen) :
          Start("transform_reduce_by", rr, "default", "field", basic_transform_traits(0, "std::plus"), NoArg)
    \/ \E rr \in SeqsK(MaxLen) : Start("extrema_by", rr, "default", "field", sum_traits, NoArg)
    \/ \E rr \in SeqsUpTo(ElemsP, MaxLen) :
          Start("partition_by", rr, "default", "identity", sum_traits, NoArg)

InitThrow == (\E f \in Faults : fault = f) /\ ThrowingCalls

Next ==
    \/ count_by_step
    \/ count_by_return
    \/ index_by_into_step
    \/ index_by_into_return
    \/ group_reduce_by_step
    \/ group_reduce_by_return
    \/ group_by_into_step
    \/ group_by_into_return
    \/ transform_reduce_by_impl_step
    \/ transform_reduce_by_impl_return
    \/ extrema_by_step
    \/ extrema_by_return
    \/ partition_by_step
    \/ partition_by_return

Spec == Init /\ [][Next]_vars
SpecThrow == InitThrow /\ [][Next]_vars

\* ---- to_sorted_pairs / top_k ----------------------------------------------------
\* std::pair<key_type, mapped_type>
Pair(first, second) == [first |-> first, second |-> second]
\* The entries of a map, as pairs.
Entries(map) == {Pair(key, map[key]) : key \in DOMAIN map}

\* The comparators: the lambdas of top_k_by_value, top_k_by_key and
\* bottom_k_by_value, and two a caller passes (by key; by value alone, which
\* leaves entries of equal value unordered).
\* by_value_desc without its tie-break on the key.
by_value_desc_only(a, b) == a.second > b.second
by_value_desc(a, b) == IF a.second # b.second THEN a.second > b.second ELSE a.first < b.first
by_key_asc(a, b) == IF a.first # b.first THEN a.first < b.first ELSE a.second > b.second
by_value_asc(a, b) == IF a.second # b.second THEN a.second < b.second ELSE a.first < b.first
Less(c, a, b) ==
    CASE c = "by_value_desc" -> by_value_desc(a, b)
      [] c = "by_key_asc" -> by_key_asc(a, b)
      [] c = "by_value_asc" -> by_value_asc(a, b)
      [] c = "key_less" -> a.first < b.first
      [] c = "value_less" -> a.second < b.second
CallerCmps == {"key_less", "value_less", "by_value_asc"}

\* std::ranges::sort(s, c): some permutation of s in which no element is
\* ordered before an earlier one; equal elements end in an unspecified order.
IsSorted(s, c) == \A i, j \in 1..Len(s) : i < j => ~Less(c, s[j], s[i])
\* Sorts leaving the entries in any order.
Unsorted(s, c) == Perms({s[i] : i \in 1..Len(s)})
Sorts(s, c) == {t \in Perms({s[i] : i \in 1..Len(s)}) : IsSorted(t, c)}

\* Resize keeping the last k entries instead of the first.
ResizeKeepLast(vv, kk) == IF Len(vv) > kk THEN SubSeq(vv, Len(vv) - kk + 1, Len(vv)) ELSE vv
\* if (v.size() > k) v.resize(k);
Resize(vv, kk) == IF Len(vv) > kk THEN SubSeq(vv, 1, kk) ELSE vv

\* CopyOut taking the entries out of the map.
MoveOut(map) == EmptyMap
\* for (auto const& kv : m) out.emplace_back(kv.first, kv.second): the map is
\* a Map const&, its entries are copied into the vector and it stays as it was.
CopyOut(map) == map

\* to_sorted_pairs(m, c): the map's entries in iteration order, then sorted.
to_sorted_pairs_call ==
    /\ op = "to_sorted_pairs" /\ pc = "call"
    /\ \E order \in Perms(Entries(m)) : \E sorted \in Sorts(order, cmp) :
          /\ iter' = order
          /\ out' = sorted
          /\ ret' = Returned(sorted)
    /\ pc' = "done"
    /\ m' = CopyOut(m)
    /\ UNCHANGED <<Inputs, freq, accs, states, k, cmp, v, prev, Effects, finalized, pos, calls>>

\* top_k(m, k, c): v = to_sorted_pairs(m, c), cut to k entries.
top_k(c) ==
    /\ pc = "call"
    /\ \E order \in Perms(Entries(m)) : \E sorted \in Sorts(order, c) :
          /\ iter' = order
          /\ out' = sorted
          /\ v' = Resize(sorted, k)
          /\ ret' = Returned(v')
    /\ pc' = "done"
    /\ m' = CopyOut(m)
    /\ UNCHANGED <<Inputs, freq, accs, states, k, cmp, prev, Effects, finalized, pos, calls>>

top_k_call == op = "top_k" /\ top_k(cmp)
top_k_by_value_call == op = "top_k_by_value" /\ top_k("by_value_desc")
top_k_by_key_call == op = "top_k_by_key" /\ top_k("by_key_asc")
bottom_k_by_value_call == op = "bottom_k_by_value" /\ top_k("by_value_asc")

\* The map holding the (key, value) pairs of a sequence of pairs.
MapOfPairs(sq) ==
    [key \in {sq[i].first : i \in DOMAIN sq} |->
        (CHOOSE e \in {sq[i] : i \in DOMAIN sq} : e.first = key).second]
\* The caller applies top_k_by_value, with the same k, to the entries it
\* returned: a new call, on the map of these entries.
top_k_by_value_again ==
    /\ op = "top_k_by_value" /\ pc = "done" /\ ~prev.has
    /\ prev' = ret
    /\ m' = MapOfPairs(ret.val)
    /\ pc' = "call" /\ iter' = <<>> /\ out' = <<>> /\ v' = <<>> /\ ret' = NoRet
    /\ UNCHANGED <<Inputs, freq, accs, states, k, cmp, Effects, finalized, pos, calls>>

\* The maps handed to the helpers: any keys among 1..MaxEntries, any values.
Maps == UNION {[D -> 1..MaxCount] : D \in SUBSET (1..MaxEntries)}
\* The frequency map of the test TopKByValueDeterministic: {6:3, 1:2, 2:2, 3:1, 4:1}.
Freq12231466 == [key \in {1, 2, 3, 4, 6} |-> CASE key = 6 -> 3 [] key \in {1, 2} -> 2 [] OTHER -> 1]

\* The state when a helper is called on map mm.
StartHelper(o, mm, kk, c) ==
    /\ op = o /\ m = mm /\ k = kk /\ cmp = c
    /\ pc = "call" /\ iter = <<>> /\ out = <<>> /\ v = <<>> /\ ret = NoRet
    /\ r = <<>> /\ overwrite = "default" /\ vkind = "field" /\ traits = sum_traits
    /\ fourth_arg = NoArg /\ expected_unique = 0
    /\ via = "direct" /\ reuse = EmptyMap /\ prev = NoRet
    /\ fault = NoFault /\ pos = 0 /\ next = 1 /\ moved = {} /\ calls = <<>>
    /\ freq = EmptyMap /\ accs = EmptyMap /\ states = EmptyMap /\ finalized = <<>>

InitHelpers ==
    \E mm \in Maps \cup {Freq12231466} :
       \/ \E c \in CallerCmps : StartHelper("to_sorted_pairs", mm, 0, c)
       \/ \E kk \in 0..MaxK, c \in CallerCmps : StartHelper("top_k", mm, kk, c)
       \/ \E kk \in 0..MaxK, o \in {"top_k_by_value", "top_k_by_key", "bottom_k_by_value"} :
             StartHelper(o, mm, kk, "none")

NextHelpers ==
    \/ to_sorted_pairs_call
    \/ top_k_call
    \/ top_k_by_value_call
    \/ top_k_by_key_call
    \/ bottom_k_by_value_call
    \/ top_k_by_value_again

SpecHelpers == InitHelpers /\ [][NextHelpers]_vars

\* ======== the claims ==============================================================
\* What the claims say of a call is stated over the input range r alone.
Done(o) == op = o /\ pc = "done"
KeysOf(rr) == {rr[i].k : i \in 1..Len(rr)}
IdxOfKey(rr, key) == {i \in 1..Len(rr) : rr[i].k = key}
MinOf(S) == CHOOSE x \in S : \A y \in S : x <= y
MaxOf(S) == CHOOSE x \in S : \A y \in S : x >= y
\* The values at the indices S of rr, in the order of rr.
RECURSIVE ValuesAt(_, _)
ValuesAt(rr, S) ==
    IF S = {} THEN <<>> ELSE ValuesAt(rr, S \ {MaxOf(S)}) \o <<rr[MaxOf(S)].v>>
RECURSIVE SumSeq(_)
SumSeq(sq) == IF sq = <<>> THEN 0 ELSE Head(sq) + SumSeq(Tail(sq))
RECURSIVE SumOver(_, _)
SumOver(f, S) == IF S = {} THEN 0 ELSE LET x == CHOOSE y \in S : TRUE IN f[x] + SumOver(f, S \ {x})

\* C1: once count_by has returned, the map's keys are the keys of the sequence,
\* each counter is the number of elements with that key, the counters sum to the
\* length of the sequence, and an empty sequence gives an empty map.
C1_CountBy ==
    Done("count_by") =>
        /\ DOMAIN ret.val = KeysOf(r)
        /\ \A key \in DOMAIN ret.val : ret.val[key] = Cardinality(IdxOfKey(r, key))
        /\ SumOver(ret.val, DOMAIN ret.val) = Len(r)
        /\ (Len(r) = 0 => ret.val = EmptyMap)
C1_Witness ==
    /\ Done("count_by") /\ Len(r) = 3
    /\ \E a, b \in DOMAIN ret.val : a # b /\ ret.val[a] = 2 /\ ret.val[b] = 1

\* C2: once group_by has returned, the buckets are those of the keys of the
\* sequence, the bucket of a key holds the projected values of exactly the
\* elements with that key, in input order, and the bucket sizes sum to the length.
C2_GroupBy ==
    Done("group_by") =>
        /\ DOMAIN ret.val = KeysOf(r)
        /\ \A key \in DOMAIN ret.val : ret.val[key] = ValuesAt(r, IdxOfKey(r, key))
        /\ SumOver([key \in DOMAIN ret.val |-> Len(ret.val[key])], DOMAIN ret.val) = Len(r)
C2_Witness ==
    /\ Done("group_by") /\ Len(r) = 3 /\ Cardinality(DOMAIN ret.val) = 2
    /\ r[1].k = r[3].k /\ r[1].v # r[3].v
    /\ ret.val[r[1].k] = <<r[1].v, r[3].v>>

\* C3: once accumulate_by has returned, each observed key holds the initial
\* value (zero when no init was passed, else the caller's init), counted once,
\* plus the sum of the projected values of the elements with that key. An init
\* is passed when the call has a fourth argument that binds to the parameter
\* init; one of type std::size_t is the capacity hint, not an init.
InitPassed == fourth_arg.passed /\ fourth_arg.type # "std::size_t"
SumOfKey(key) == SumSeq(ValuesAt(r, IdxOfKey(r, key)))
C3_AccumulateBy ==
    Done("accumulate_by") =>
        /\ DOMAIN ret.val = KeysOf(r)
        /\ \A key \in DOMAIN ret.val :
              ret.val[key] = (IF InitPassed THEN fourth_arg.val ELSE 0) + SumOfKey(key)
        /\ (r = Scores /\ ~InitPassed) => ret.val[1] = 7
        /\ (r = Scores /\ fourth_arg = Arg("int", 10)) => ret.val[1] = 17
C3_Witness ==
    /\ Done("accumulate_by") /\ r = Scores /\ fourth_arg = Arg("int", 10)
    /\ ret.val[1] = 17 /\ ret.val[2] = 16

\* C4: while extrema_by runs and once it has returned, each observed key's min
\* is the projected value of the first element with the smallest order key among
\* that key's elements seen, and its max that of the first with the largest: an
\* element that only ties the current min or max never replaces the stored value.
Seen(key) == {i \in IdxOfKey(r, key) : i <= pos}
FirstWithOrder(S, ord) == MinOf({i \in S : r[i].o = ord})
FirstMin(S) == FirstWithOrder(S, MinOf({r[i].o : i \in S}))
FirstMax(S) == FirstWithOrder(S, MaxOf({r[i].o : i \in S}))
C4_ExtremaBy ==
    /\ (op = "extrema_by" /\ pc = "loop") =>
          /\ DOMAIN states = {r[i].k : i \in 1..pos}
          /\ \A key \in DOMAIN states :
                /\ states[key].min_value = r[FirstMin(Seen(key))].v
                /\ states[key].max_value = r[FirstMax(Seen(key))].v
    /\ Done("extrema_by") =>
          /\ DOMAIN ret.val = KeysOf(r)
          /\ \A key \in DOMAIN ret.val :
                /\ ret.val[key].min = r[FirstMin(IdxOfKey(r, key))].v
                /\ ret.val[key].max = r[FirstMax(IdxOfKey(r, key))].v
C4_Witness ==
    /\ Done("extrema_by") /\ Len(r) = 3
    /\ r[1].k = r[2].k /\ r[2].k = r[3].k
    /\ r[1].o = 2 /\ r[2].o = 1 /\ r[3].o = 1
    /\ ret.val[r[1].k].min = r[2].v /\ ret.val[r[1].k].max = r[1].v

\* C5: once partition_by with the identity value projection has returned, trues
\* is the subsequence of the elements satisfying the predicate and falses that of
\* the others, and merging the two by original position gives the input back.
IsTrue(x) == x.p
IsFalse(x) == ~x.p
RECURSIVE MergeBack(_, _, _)
MergeBack(rr, ts, fs) ==
    IF rr = <<>> THEN ts \o fs
    ELSE IF IsTrue(Head(rr))
         THEN IF ts = <<>> THEN <<>> ELSE <<Head(ts)>> \o MergeBack(Tail(rr), Tail(ts), fs)
         ELSE IF fs = <<>> THEN <<>> ELSE <<Head(fs)>> \o MergeBack(Tail(rr), ts, Tail(fs))
C5_PartitionBy ==
    (Done("partition_by") /\ vkind = "identity") =>
        /\ ret.val.trues = SelectSeq(r, IsTrue)
        /\ ret.val.falses = SelectSeq(r, IsFalse)
        /\ Len(ret.val.trues) + Len(ret.val.falses) = Len(r)
        /\ MergeBack(r, ret.val.trues, ret.val.falses) = r
C5_Witness ==
    /\ Done("partition_by") /\ vkind = "identity" /\ Len(r) = 3
    /\ r[1].p /\ ~r[2].p /\ r[3].p /\ r[1] # r[3]
    /\ ret.val.trues = <<r[1], r[3]>> /\ ret.val.falses = <<r[2]>>

\* C6: once index_by has returned, each observed key maps to the projected value
\* of the last element with that key when overwrite is true or not passed, and
\* to that of the first element with that key when overwrite is false.
\* The projected value of element i: the counter projection gives the i-th count.
Projected(i) == IF vkind = "counter" THEN i ELSE r[i].v
C6_IndexBy ==
    Done("index_by") =>
        /\ DOMAIN ret.val = KeysOf(r)
        /\ \A key \in DOMAIN ret.val :
              ret.val[key] = IF overwrite \in {"true", "default"}
                             THEN Projected(MaxOf(IdxOfKey(r, key)))
                             ELSE Projected(MinOf(IdxOfKey(r, key)))
C6_Witness ==
    /\ Done("index_by") /\ overwrite = "false" /\ vkind = "field" /\ Len(r) = 3
    /\ r[1].k = r[2].k /\ r[2].k = r[3].k /\ r[1].v # r[3].v
    /\ ret.val[r[1].k] = r[1].v

\* C7: in every engine operation each supplied projection is invoked exactly once
\* on each element, the elements are taken in sequence order with none skipped or
\* revisited, and the whole sequence has been taken on return; so a running
\* counter as value projection gives element i the i-th count (index_by over the
\* sorted distinct values [10,20,30,40] ranks [40,10,20,30] as [4,1,2,3]).
SuppliedProjs(o) ==
    CASE o = "count_by" -> {"key"}
      [] o = "extrema_by" -> {"key", "order", "value"}
      [] o = "partition_by" -> {"pred", "value"}
      [] OTHER -> {"key", "value"}
EngineOps == {"count_by", "index_by", "group_by", "group_by_into", "group_reduce_by", "transform_reduce_by",
              "accumulate_by", "extrema_by", "partition_by"}
DistinctKeys(rr) == \A i, j \in 1..Len(rr) : rr[i].k = rr[j].k => i = j
C7_OncePerElementInOrder ==
    (op \in EngineOps /\ pc \in {"loop", "done"}) =>
        /\ (pc = "done" => pos = Len(r))
        /\ \A i \in 1..pos, pj \in SuppliedProjs(op) :
              Cardinality({j \in DOMAIN calls : calls[j] = [proj |-> pj, at |-> i]}) = 1
        /\ \A j \in DOMAIN calls : calls[j].at \in 1..pos /\ calls[j].proj \in SuppliedProjs(op)
        /\ \A j1, j2 \in DOMAIN calls : j1 < j2 => calls[j1].at <= calls[j2].at
        /\ (vkind = "counter" => next = pos + 1)
        /\ (Done("index_by") /\ vkind = "counter" /\ DistinctKeys(r)) =>
              \A i \in 1..Len(r) : ret.val[r[i].k] = i
C7_Witness ==
    /\ Done("index_by") /\ vkind = "counter" /\ r = Uniq
    /\ <<ret.val[40], ret.val[10], ret.val[20], ret.val[30]>> = <<4, 1, 2, 3>>
    /\ Len(calls) = 8

\* C8: when a projection throws on an element, the operation ends there with
\* the exception: it never returns a map, the throwing projection was invoked on
\* that element once (no retry), no element after it is touched, and nothing
\* further happens in the call.
FaultHit == fault.proj \in SuppliedProjs(op) /\ fault.at \in 1..Len(r)
C8_ProjectionErrorPropagates ==
    /\ pc = "threw" =>
          /\ FaultHit
          /\ ~ret.has
          /\ pos = fault.at - 1
          /\ calls[Len(calls)] = fault
          /\ Cardinality({j \in DOMAIN calls : calls[j] = fault}) = 1
          /\ \A j \in DOMAIN calls : calls[j].at <= fault.at
          /\ ~ENABLED Next
    /\ FaultHit => pc # "done" /\ ~ret.has
    /\ (FaultHit /\ pc = "loop") => pos < fault.at /\ ENABLED Next
C8_Witness ==
    /\ pc = "threw" /\ op = "transform_reduce_by" /\ Len(r) = 3
    /\ fault = [proj |-> "value", at |-> 2]
    /\ calls = <<[proj |-> "key", at |-> 1], [proj |-> "value", at |-> 1],
                [proj |-> "key", at |-> 2], [proj |-> "value", at |-> 2]>>

\* C9: top_k (and each helper built on it) returns the first min(k, map size)
\* entries of the sorted pairs to_sorted_pairs made of the map: nothing for k = 0,
\* all of them for k at least the map size.
TopKOps == {"top_k", "top_k_by_value", "top_k_by_key", "bottom_k_by_value"}
MinInt(a, b) == IF a < b THEN a ELSE b
C9_TopKIsPrefix ==
    (op \in TopKOps /\ pc = "done") =>
        /\ Len(out) = Cardinality(DOMAIN m)
        /\ {out[i] : i \in 1..Len(out)} = Entries(m)
        /\ ret.val = SubSeq(out, 1, MinInt(k, Cardinality(DOMAIN m)))
        /\ (k = 0 => ret.val = <<>>)
        /\ (k >= Cardinality(DOMAIN m) => ret.val = out)
C9_Witness ==
    /\ Done("top_k") /\ cmp = "value_less" /\ m = Freq12231466 /\ k = 2
    /\ Len(out) = 5 /\ ret.val = <<out[1], out[2]>> /\ out[1] # out[2]

\* C10: whatever order the map hands out its entries in, top_k_by_value lists
\* the entries by value descending, ties by key ascending, bottom_k_by_value by
\* value ascending, ties by key ascending, and top_k_by_key by key ascending, each
\* cut to min(k, map size) entries; {6:3, 1:2, 2:2, 3:1, 4:1} with k = 2 gives
\* [(6,3), (1,2)].
ValueDescKeyAsc(a, b) == a.second > b.second \/ (a.second = b.second /\ a.first < b.first)
ValueAscKeyAsc(a, b) == a.second < b.second \/ (a.second = b.second /\ a.first < b.first)
KeyAsc(a, b) == a.first < b.first
\* res holds the first min(k, map size) entries of m in the order Before
RankedBy(res, Before(_, _)) ==
    /\ Len(res) = MinInt(k, Cardinality(DOMAIN m))
    /\ \A i \in 1..Len(res) : res[i] \in Entries(m)
    /\ \A i, j \in 1..Len(res) : i < j => Before(res[i], res[j])
    /\ \A e \in Entries(m) \ {res[i] : i \in 1..Len(res)} :
          \A i \in 1..Len(res) : Before(res[i], e)
C10_HelpersDeterministic ==
    /\ Done("top_k_by_value") => RankedBy(ret.val, ValueDescKeyAsc)
    /\ Done("bottom_k_by_value") => RankedBy(ret.val, ValueAscKeyAsc)
    /\ Done("top_k_by_key") => RankedBy(ret.val, KeyAsc)
    /\ (Done("top_k_by_value") /\ m = Freq12231466 /\ k = 2) => ret.val = <<Pair(6, 3), Pair(1, 2)>>
C10_Witness ==
    /\ Done("top_k_by_value") /\ m = Freq12231466 /\ k = 2
    /\ iter = <<Pair(4, 1), Pair(2, 2), Pair(1, 2), Pair(3, 1), Pair(6, 3)>>
    /\ ret.val = <<Pair(6, 3), Pair(1, 2)>>

\* C11: a call of to_sorted_pairs, top_k, top_k_by_value, top_k_by_key or
\* bottom_k_by_value leaves the map it is given with exactly the keys and values
\* it had before the call, whatever k is (k below the map size included).
HelperOps == {"to_sorted_pairs", "top_k", "top_k_by_value", "top_k_by_key", "bottom_k_by_value"}
C11_MapUnchanged == [][(op \in HelperOps /\ pc = "call") => m' = m]_vars
C11_Witness ==
    /\ Done("top_k_by_key") /\ k = 1 /\ m = [key \in 1..3 |-> 2]
    /\ ret.val = <<Pair(1, 2)>>

\* C12: transform_reduce_by with a plain (init, binary operator) pair and
\* transform_reduce_by with a traits object without finalize, whose identity
\* returns init and whose combine stores operator(acc, value), return the same
\* map: either way each observed key holds init folded with the operator over
\* the key's projected values, in sequence order. And accumulate_by without an
\* init returns what accumulate_by with init zero returns: the sums.
RECURSIVE FoldLeft(_, _, _)
FoldLeft(bop, acc, sq) ==
    IF sq = <<>> THEN acc
    ELSE FoldLeft(bop, (IF bop = "std::minus" THEN acc - Head(sq) ELSE acc + Head(sq)), Tail(sq))
PairOrTraits == {"basic_transform_traits", "caller_traits"}
C12_PairEqualsTraits ==
    /\ (Done("transform_reduce_by") /\ traits.kind \in PairOrTraits) =>
          /\ DOMAIN ret.val = KeysOf(r)
          /\ \A key \in DOMAIN ret.val :
                ret.val[key] = FoldLeft(traits.combine_op, traits.init, ValuesAt(r, IdxOfKey(r, key)))
    /\ (Done("accumulate_by") /\ fourth_arg \in {NoArg, Arg("int", 0)}) =>
          /\ DOMAIN ret.val = KeysOf(r)
          /\ \A key \in DOMAIN ret.val : ret.val[key] = SumOfKey(key)
C12_Witness ==
    /\ Done("transform_reduce_by") /\ traits = basic_transform_traits(10, "std::minus")
    /\ Len(r) = 3 /\ r[1].k = r[3].k /\ r[2].k # r[1].k /\ r[1].v = 1 /\ r[3].v = -1
    /\ ret.val[r[1].k] = 10 /\ ret.val[r[2].k] = 10 - r[2].v

\* C14: with a traits object that has finalize, transform_reduce_by returns a
\* map with the keys of the accumulator map, each key holding finalize of the
\* key's final accumulator (the identity combined with the key's projected values
\* in sequence order), finalize having run once per key; the averages of the
\* test's samples are 4.0 for a (2, 6, 4) and 6.0 for b.
Average(sq) == IF Len(sq) = 0 THEN Quotient(0, 1) ELSE Quotient(SumSeq(sq), Len(sq))
C14_Finalize ==
    (Done("transform_reduce_by") /\ traits = AvgTraits) =>
        /\ DOMAIN ret.val = DOMAIN accs /\ DOMAIN accs = KeysOf(r)
        /\ Len(finalized) = Cardinality(DOMAIN accs)
        /\ \A key \in DOMAIN accs :
              /\ Cardinality({j \in DOMAIN finalized : finalized[j] = key}) = 1
              /\ accs[key] = [sum |-> SumOfKey(key), count |-> Cardinality(IdxOfKey(r, key))]
              /\ ret.val[key] = Average(ValuesAt(r, IdxOfKey(r, key)))
        /\ (r = Samples => ret.val[1] = [num |-> 4, den |-> 1] /\ ret.val[2] = [num |-> 6, den |-> 1])
C14_Witness ==
    /\ Done("transform_reduce_by") /\ traits = AvgTraits /\ r = Samples
    /\ accs[1] = [sum |-> 12, count |-> 3]
    /\ ret.val[1] = [num |-> 4, den |-> 1] /\ finalized = <<2, 1>>

\* C13: an operation applied through its adaptor, as r | adaptor(args) or as
\* adaptor(args)(r), returns what the engine operation called directly on r with
\* the arguments the adaptor holds returns: whichever way it was called, the
\* result is the one the operation's arguments and r determine.
AdaptorOps == {"count_by", "group_by", "accumulate_by", "transform_reduce_by",
               "extrema_by", "partition_by"}
\* The value the value projection of the call gives for element x.
ValueOf(x) == IF vkind = "identity" THEN x ELSE x.v
ValuesOf(sq) == [i \in DOMAIN sq |-> ValueOf(sq[i])]
ResultOfKey(key) ==
    LET idx == IdxOfKey(r, key)
    IN  CASE op = "count_by" -> Cardinality(idx)
          [] op = "group_by" -> ValuesAt(r, idx)
          [] op = "accumulate_by" -> (IF InitPassed THEN fourth_arg.val ELSE 0) + SumOfKey(key)
          [] op = "transform_reduce_by" ->
                IF traits = AvgTraits THEN Average(ValuesAt(r, idx))
                ELSE FoldLeft(traits.combine_op, traits.init, ValuesAt(r, idx))
          [] op = "extrema_by" -> [min |-> r[FirstMin(idx)].v, max |-> r[FirstMax(idx)].v]
DirectResult ==
    IF op = "partition_by"
    THEN [falses |-> ValuesOf(SelectSeq(r, IsFalse)), trues |-> ValuesOf(SelectSeq(r, IsTrue))]
    ELSE [key \in KeysOf(r) |-> ResultOfKey(key)]
MapOps == {"count_by", "index_by", "group_by", "group_by_into", "group_reduce_by",
           "transform_reduce_by", "accumulate_by", "extrema_by"}
TheMap ==
    CASE op = "count_by" -> freq
      [] op \in {"transform_reduce_by", "accumulate_by"} -> accs
      [] op = "extrema_by" -> states
      [] OTHER -> m
C15_OneEntryPerKey ==
    (op \in MapOps /\ reuse = EmptyMap) =>
        /\ pc = "loop" =>
              /\ DOMAIN TheMap = {r[i].k : i \in 1..pos}
              /\ Cardinality(DOMAIN TheMap) <= pos
              /\ (pos >= 1 => Cardinality(DOMAIN TheMap) >= 1)
        /\ pc = "done" =>
              /\ Cardinality(DOMAIN ret.val) = Cardinality(KeysOf(r))
              /\ Cardinality(DOMAIN ret.val) <= Len(r)
              /\ (Len(r) >= 1 => Cardinality(DOMAIN ret.val) >= 1)
C15_Witness ==
    /\ op = "group_reduce_by" /\ pc = "loop" /\ pos = 3
    /\ r[1].k = r[3].k /\ r[2].k # r[1].k
    /\ Cardinality(DOMAIN m) = 2 /\ Len(m[r[1].k]) = 2

\* C16: while extrema_by runs, after each element the state of every key has
\* min_order <= max_order, a key seen once has min equal to max, and from one
\* step to the next a key's min_order never increases and its max_order never
\* decreases.
C16_ExtremaWiden ==
    /\ [](op = "extrema_by" /\ pc = "loop" =>
            \A key \in DOMAIN states :
               /\ states[key].min_order <= states[key].max_order
               /\ Cardinality(Seen(key)) = 1 =>
                     /\ states[key].min_order = states[key].max_order
                     /\ states[key].min_value = states[key].max_value)
    /\ [][(op = "extrema_by" /\ pc' = "loop") =>
            \A key \in DOMAIN states :
               /\ key \in DOMAIN states'
               /\ states'[key].min_order <= states[key].min_order
               /\ states'[key].max_order >= states[key].max_order]_vars
C16_Witness ==
    /\ op = "extrema_by" /\ pc = "loop" /\ pos = 3
    /\ r[1].k = r[2].k /\ r[3].k # r[1].k
    /\ r[1].o = 2 /\ r[2].o = 1
    /\ states[r[1].k].min_order = 1 /\ states[r[1].k].max_order = 2
    /\ states[r[3].k].min_value = states[r[3].k].max_value

\* C17: top_k_by_value applied, with the same k, to the entries an earlier
\* call of it returned gives the same sequence again.
C17_TopKByValueIdempotent ==
    (Done("top_k_by_value") /\ prev.has) => ret.val = prev.val
C17_Witness ==
    /\ Done("top_k_by_value") /\ prev.has /\ k = 2
    /\ prev.val = <<Pair(6, 3), Pair(1, 2)>>
    /\ m = [key \in {1, 6} |-> IF key = 6 THEN 3 ELSE 2]
    /\ iter = <<Pair(1, 2), Pair(6, 3)>>
    /\ ret.val = <<Pair(6, 3), Pair(1, 2)>>

\* C18: extrema_by invokes the order projection on each element before the
\* value projection, so with a value projection that moves the payload out of
\* the element every element is still ranked by the order key it had: the
\* states hold the smallest and largest of these order keys and the payloads
\* that came with them.
CalledBefore(pa, pb, i) ==
    \E a, b \in DOMAIN calls :
        a < b /\ calls[a] = [proj |-> pa, at |-> i] /\ calls[b] = [proj |-> pb, at |-> i]
C18_OrderBeforeValue ==
    (op = "extrema_by" /\ vkind = "move" /\ pc \in {"loop", "done"}) =>
        /\ moved = 1..pos
        /\ \A i \in 1..pos : CalledBefore("order", "value", i)
        /\ \A key \in DOMAIN states :
              /\ states[key].min_order = MinOf({r[i].o : i \in Seen(key)})
              /\ states[key].max_order = MaxOf({r[i].o : i \in Seen(key)})
              /\ states[key].min_value = r[FirstMin(Seen(key))].v
              /\ states[key].max_value = r[FirstMax(Seen(key))].v
        /\ pc = "done" =>
              \A key \in KeysOf(r) :
                 /\ ret.val[key].min = r[FirstMin(IdxOfKey(r, key))].v
                 /\ ret.val[key].max = r[FirstMax(IdxOfKey(r, key))].v
C18_Witness ==
    /\ Done("extrema_by") /\ vkind = "move" /\ r = entries /\ moved = 1..4
    /\ ret.val[1] = [min |-> 2, max |-> 3] /\ ret.val[2] = [min |-> 4, max |-> 4]

\* C19: partition_by evaluates the predicate on each element before the value
\* projection, so with a value projection that moves the element's content out
\* every element still goes to the branch its content decides: trues holds the
\* contents of the elements satisfying the predicate, falses those of the
\* others, both in input order.
C19_PredBeforeValue ==
    (op = "partition_by" /\ vkind = "move" /\ pc \in {"loop", "done"}) =>
        /\ moved = 1..pos
        /\ \A i \in 1..pos : CalledBefore("pred", "value", i)
        /\ out.trues = ValuesOf(SelectSeq(SubSeq(r, 1, pos), IsTrue))
        /\ out.falses = ValuesOf(SelectSeq(SubSeq(r, 1, pos), IsFalse))
        /\ pc = "done" => ret.val = out
C19_Witness ==
    /\ Done("partition_by") /\ vkind = "move" /\ r = words /\ moved = 1..5
    /\ ret.val.trues = <<2, 3, 5>> /\ ret.val.falses = <<1, 4>>

\* C20: group_by_into keeps the entries of the map it is handed: a key of that
\* map that no element has is returned with its bucket as it was, and a key of
\* that map that elements have is returned with its old bucket followed by the
\* projected values of these elements, in input order; the other keys of the
\* sequence get the buckets group_by gives them.
OldBucket(key) == IF key \in DOMAIN reuse THEN reuse[key] ELSE <<>>
C20_GroupByIntoKeeps ==
    Done("group_by_into") =>
        /\ DOMAIN ret.val = DOMAIN reuse \cup KeysOf(r)
        /\ \A key \in DOMAIN reuse \ KeysOf(r) : ret.val[key] = reuse[key]
        /\ \A key \in DOMAIN ret.val :
              ret.val[key] = OldBucket(key) \o ValuesAt(r, IdxOfKey(r, key))
C20_Witness ==
    /\ Done("group_by_into") /\ DOMAIN reuse = {0, 1} /\ Len(r) = 3
    /\ r[1].k = 1 /\ r[2].k = 2 /\ r[3].k = 1 /\ r[1].v = 1 /\ r[3].v = -1
    /\ ret.val[0] = <<1>> /\ ret.val[1] = <<-1, 1, 1, -1>> /\ ret.val[2] = <<r[2].v>>
====
